---- MODULE Spec2Model ----
(***************************************************************************)
(* Model of the request dispatcher of amazon-location-service-with-        *)
(* snowflake: the Lambda handler of functions/handleSnowflakeFunction-     *)
(* Requests.ts together with the helpers it calls in functions/common/     *)
(* helpers.ts and functions/common/location-helpers.ts.                    *)
(*                                                                         *)
(* One inbound call is a small state machine whose steps are the pieces of *)
(* the async handler between two awaits:                                   *)
(*   Receive       body decode, header decode, operation classification,   *)
(*                 environment lookup, issue of the AppConfig fetch        *)
(*   ConfigReply   the AppConfig fetch settles; provider suffix match;     *)
(*                 start of the row loop and issue of the first send       *)
(*   BackendReply  one locationClient.send settles; push of the result row *)
(*                 and issue of the next send, or the final response       *)
(* AppConfig and Amazon Location are external: their replies are chosen    *)
(* nondeterministically when the awaited promise settles.                  *)
(***************************************************************************)
EXTENDS Integers, Sequences, FiniteSets, TLC

VARIABLES
    body,          \* event.body, the raw request body
    headers,       \* event.headers
    env,           \* process.env: the set of variables that are set
    pc,            \* position of the handler: start, awaitConfig, awaitBackend, done
    functionName,  \* snowflakeFunctionName (handler local)
    operation,     \* operation (handler local)
    rows,          \* rows (handler local): the decoded data field
    placeIndex,    \* dataProvider (handler local): the resolved place index
    i,             \* number of rows of the loop whose send has been issued
    resultRows,    \* resultRows (local of geocodeRows / reverseGeocodeRows)
    response,      \* the value the handler returned
    responses,     \* number of values the handler returned
    fetches,       \* history: getAppConfig calls issued
    configReply,   \* history: what the AppConfig fetch settled with
    sent,          \* history: the commands passed to locationClient.send
    replies,       \* history: what each send settled with
    region,        \* process.env.AWS_REGION of the provisioning function
    event,         \* the CloudFormation event being handled
    rpc,           \* position of the provisioning handler
    stmtIndex,     \* number of statements of the current function loop issued
    integrations,  \* the warehouse: the API integrations, by name
    functions,     \* the warehouse: the external functions, by name
    stmts,         \* history: the statements passed to executeStatement for the event
    described,     \* what describeApiIntegration returned for the event
    result,        \* what the provisioning handler returned or threw
    faults,        \* history: a statement of the event failed for a reason of transport
    prev,          \* history: whether the event is a redelivery, and the warehouse it found
    delivered,     \* number of events delivered
    connectionPool,    \* SnowflakeClient.connectionPool
    connectionOptions, \* SnowflakeClient.connectionOptions
    cpc,           \* position of executeStatement
    sqlText,       \* the statement of the executeStatement call under way
    executions,    \* number of executeStatement calls made
    pools,         \* history: number of pools createPool has returned
    poolUses,      \* history: the pool and the statement of each connectionPool.use
    calls,         \* the locals of each of the concurrent inbound calls
    resultRowsOf   \* the resultRows arrays, by the scope that declares them

hvars == <<body, headers, env, pc, functionName, operation, rows, placeIndex, i,
           resultRows, response, responses, fetches, configReply, sent, replies>>

rvars == <<region, event, rpc, stmtIndex, integrations, functions, stmts, described,
           result, faults, prev, delivered>>

pvars == <<connectionPool, connectionOptions, cpc, sqlText, executions, pools, poolUses>>

cvars == <<calls, resultRowsOf>>

vars == <<body, headers, env, pc, functionName, operation, rows, placeIndex, i,
          resultRows, response, responses, fetches, configReply, sent, replies,
          region, event, rpc, stmtIndex, integrations, functions, stmts, described,
          result, faults, prev, delivered,
          connectionPool, connectionOptions, cpc, sqlText, executions, pools, poolUses,
          calls, resultRowsOf>>

-----------------------------------------------------------------------------
(* Bounds *)

\* longest batch of rows in a request body
MaxRows == 2

\* most CloudFormation events delivered to the provisioning function
MaxEvents == 2

\* most executeStatement calls made on the SnowflakeClient of a process
MaxExecutions == 3

-----------------------------------------------------------------------------
(* JavaScript values *)

\* the value undefined, where a string is expected
UNDEF == "<undefined>"
\* the JSON text null, which JSON.stringify writes for an undefined array element
JNULL == "<null>"

\* strings the code inspects character by character are sequences of characters
Upper == <<"A","B","C","D","E","F","G","H","I","J","K","L","M",
           "N","O","P","Q","R","S","T","U","V","W","X","Y","Z">>
Lower == <<"a","b","c","d","e","f","g","h","i","j","k","l","m",
           "n","o","p","q","r","s","t","u","v","w","x","y","z">>

\* String.prototype.toLowerCase on one character
LowerChar(c) ==
    IF \E k \in 1..Len(Upper) : Upper[k] = c
    THEN Lower[CHOOSE k \in 1..Len(Upper) : Upper[k] = c]
    ELSE c

\* String.prototype.toLowerCase
toLowerCase(s) == [k \in 1..Len(s) |-> LowerChar(s[k])]

\* String.prototype.startsWith
startsWith(s, p) == Len(s) >= Len(p) /\ SubSeq(s, 1, Len(p)) = p

\* String.prototype.endsWith
endsWith(s, p) == Len(s) >= Len(p) /\ SubSeq(s, Len(s) - Len(p) + 1, Len(s)) = p

-----------------------------------------------------------------------------
(* The inputs of one inbound call *)

\* pieces the function names of the requests are built from
NamePrefixes ==
    { <<"g","e","o","c","o","d","e">>,
      <<"G","e","o","C","o","d","e">>,
      <<"r","e","v","e","r","s","e","_","g","e","o","c","o","d","e">>,
      <<"R","E","V","E","R","S","E">>,
      <<"g","e","o">>,
      <<"f","o","o">>,
      <<>> }

NameSuffixes ==
    { <<"_","h","e","r","e">>,
      <<"_","E","S","R","I">>,
      <<"_","G","r","a","b">>,
      <<"_","x","y","z">>,
      <<>> }

\* values of the header sf-external-function-name (the empty string included)
Names == { p \o s : p \in NamePrefixes, s \in NameSuffixes }

\* event.headers: null, an object without the header, or an object with it
HeaderValues ==
    { [hk |-> "null", v |-> <<>>], [hk |-> "absent", v |-> <<>>] }
    \cup { [hk |-> "value", v |-> n] : n \in Names }

\* a row of the data field: a JSON array of scalars (iterable), or a JSON
\* value that is not iterable (a number, null, an object)
RowValues ==
    { [iterable |-> TRUE,  f |-> <<"1", "addr">>],
      [iterable |-> TRUE,  f |-> <<"2", "nowhere">>],
      [iterable |-> TRUE,  f |-> <<"3", "13.40", "52.52">>],
      [iterable |-> TRUE,  f |-> <<>>],
      [iterable |-> FALSE, f |-> <<>>] }

RowSeqs == UNION { [1..n -> RowValues] : n \in 0..MaxRows }

\* the data field of a body that is a JSON object:
\*   absent    no data field
\*   falsy     null, 0, "" or false
\*   scalar    a truthy value that is not iterable (a number, true, an object)
\*   rows      a JSON array
DataValues ==
    { [dk |-> "absent", r |-> <<>>],
      [dk |-> "falsy",  r |-> <<>>],
      [dk |-> "scalar", r |-> <<>>] }
    \cup { [dk |-> "rows", r |-> rs] : rs \in RowSeqs }

NoData == [dk |-> "absent", r |-> <<>>]

\* event.body:
\*   null      null or undefined         empty    the empty string
\*   notjson   text that is not JSON     scalar   a JSON number, string or boolean
\*   jsonnull  the JSON text null        array    a JSON array
\*   object    a JSON object, with its data field
BodyValues ==
    { [kind |-> k, data |-> NoData] :
          k \in {"null", "empty", "notjson", "scalar", "jsonnull", "array"} }
    \cup { [kind |-> "object", data |-> d] : d \in DataValues }

\* the environment variables getPlaceIndexes reads, in the order it reads them
EnvNames == << "APPCONFIG_APPLICATION_ID", "APPCONFIG_ENVIRONMENT_ID",
               "APPCONFIG_CONFIGURATION_PROFILE_ID" >>

AllEnv == { EnvNames[k] : k \in 1..Len(EnvNames) }

EnvValues == { AllEnv } \cup { AllEnv \ {v} : v \in AllEnv }

-----------------------------------------------------------------------------
(* Results of calls that may throw *)

\* a normal return of value v
Return(v) == [threw |-> FALSE, v |-> v, isError |-> FALSE, message |-> ""]

\* throw new Error(m), or a TypeError raised by the runtime
Throw(m) == [threw |-> TRUE, v |-> UNDEF, isError |-> TRUE, message |-> m]

\* a rejection with a value that is not an instance of Error
ThrowNonError == [threw |-> TRUE, v |-> UNDEF, isError |-> FALSE, message |-> ""]

-----------------------------------------------------------------------------
(* functions/common/helpers.ts *)

\* Object.keys of an array: its indices, as strings
ObjectKeysOfArray(a) == { ToString(k - 1) : k \in 1..Len(a) }

\* checkData: iterates Object.keys(properties), the indices of the array
checkData(data, properties) ==
    IF data.undef THEN FALSE
    ELSE \A property \in ObjectKeysOfArray(properties) : property \in data.keys

\* getEnvironmentVariableStringValue
getEnvironmentVariableStringValue(e, name) ==
    IF name \notin e
    THEN Throw("missing environment variable: " \o name)
    ELSE Return(name)

\* getPlaceIndexes up to its await: the three environment lookups, in order
getPlaceIndexesEnv(e) ==
    IF \E k \in 1..Len(EnvNames) : EnvNames[k] \notin e
    THEN getEnvironmentVariableStringValue(e,
             EnvNames[CHOOSE k \in 1..Len(EnvNames) :
                 /\ EnvNames[k] \notin e
                 /\ \A j \in 1..(k - 1) : EnvNames[j] \in e])
    ELSE Return("")

\* what the awaited getAppConfig settles with: a rejection, or the parsed
\* configuration, either undefined or an object with the given own keys
ConfigKeys == {"Here", "Esri", "Grab"}

ConfigReplies ==
    { [kind |-> "error", undef |-> TRUE, keys |-> {}],
      [kind |-> "data",  undef |-> TRUE, keys |-> {}],
      [kind |-> "data",  undef |-> FALSE, keys |-> {"0", "1"}] }
    \cup { [kind |-> "data", undef |-> FALSE, keys |-> K] :
              K \in { {}, {"Here"}, {"Esri", "Here"}, ConfigKeys } }

NoConfigReply == [kind |-> "none", undef |-> TRUE, keys |-> {}]

\* getPlaceIndexes from its await on: the check of the fetched value
getPlaceIndexes(reply) ==
    IF reply.kind = "error" THEN Throw("AppConfig error")
    ELSE IF checkData(reply, <<"Esri", "Here">>)
         THEN Throw("missing place indexes in AppConfig")
         ELSE Return(reply)

\* the place index names the configuration holds
PlaceIndexName == [Here |-> "HerePlaceIndex", Esri |-> "EsriPlaceIndex",
                   Grab |-> "GrabPlaceIndex"]

\* getRowsFromBody without its check of parsedBody.data
getRowsFromBodyNoDataCheck(b) ==
    LET text == IF b.kind \in {"null", "empty"}
                THEN [kind |-> "object", data |-> NoData]
                ELSE b
    IN  IF text.kind \in {"notjson", "scalar", "jsonnull"}
        THEN [_error |-> "invalid body", rows |-> NoData]
        ELSE [_error |-> UNDEF, rows |-> text.data]

\* getRowsFromBody with a check that parsedBody.data is an array
getRowsFromBodyArrayOnly(b) ==
    LET text == IF b.kind \in {"null", "empty"}
                THEN [kind |-> "object", data |-> NoData]
                ELSE b
    IN  IF text.kind \in {"notjson", "scalar", "jsonnull", "array"}
        THEN [_error |-> "invalid body", rows |-> NoData]
        ELSE IF text.data.dk # "rows"
        THEN [_error |-> "invalid body", rows |-> NoData]
        ELSE [_error |-> UNDEF, rows |-> text.data]

\* getRowsFromBody
getRowsFromBody(b) ==
    LET text == IF b.kind \in {"null", "empty"}
                THEN [kind |-> "object", data |-> NoData]   \* body || "{}"
                ELSE b
    IN  IF text.kind = "notjson"
        THEN [_error |-> "invalid body", rows |-> NoData]   \* JSON.parse throws
        ELSE IF text.kind = "scalar"
        THEN [_error |-> "invalid body", rows |-> NoData]   \* typeof !== "object"
        ELSE IF text.kind = "jsonnull"
        THEN [_error |-> "invalid body", rows |-> NoData]   \* !parsedBody
        ELSE IF text.kind = "array" \/ text.data.dk \in {"absent", "falsy"}
        THEN [_error |-> "invalid body", rows |-> NoData]   \* !parsedBody.data
        ELSE [_error |-> UNDEF, rows |-> text.data]

\* getSnowflakeFunctionNameFromHeaders returning the name in lower case
getSnowflakeFunctionNameFromHeadersLower(h) ==
    IF h.hk = "null"
    THEN [_error |-> "invalid headers", functionName |-> <<>>]
    ELSE IF h.hk = "absent" \/ h.v = <<>>
    THEN [_error |-> "missing function name", functionName |-> <<>>]
    ELSE [_error |-> UNDEF, functionName |-> toLowerCase(h.v)]

\* getSnowflakeFunctionNameFromHeaders
getSnowflakeFunctionNameFromHeaders(h) ==
    IF h.hk = "null"
    THEN [_error |-> "invalid headers", functionName |-> <<>>]
    ELSE IF h.hk = "absent" \/ h.v = <<>>                   \* !functionName
    THEN [_error |-> "missing function name", functionName |-> <<>>]
    ELSE [_error |-> UNDEF, functionName |-> h.v]

-----------------------------------------------------------------------------
(* functions/common/location-helpers.ts *)

HERE == <<"h","e","r","e">>
ESRI == <<"e","s","r","i">>
GRAB == <<"g","r","a","b">>
GEOCODE == <<"g","e","o","c","o","d","e">>
REVERSE == <<"r","e","v","e","r","s","e">>

\* property read placeIndexes.<key> on the value getPlaceIndexes returned
ReadIndex(placeIndexes, key) ==
    IF placeIndexes.undef
    THEN Throw("Cannot read properties of undefined (reading '" \o key \o "')")
    ELSE IF key \in placeIndexes.keys THEN Return(PlaceIndexName[key])
    ELSE Return(UNDEF)

\* getPlaceIndexFromFunctionName without the call of toLowerCase
getPlaceIndexFromFunctionNameCaseSensitive(name, placeIndexes) ==
    IF endsWith(name, HERE) THEN ReadIndex(placeIndexes, "Here")
    ELSE IF endsWith(name, ESRI) THEN ReadIndex(placeIndexes, "Esri")
    ELSE IF endsWith(name, GRAB) THEN ReadIndex(placeIndexes, "Grab")
    ELSE Throw("no provider found, invalid function name")

\* getPlaceIndexFromFunctionName from the return of getPlaceIndexes on
getPlaceIndexFromFunctionName(name, placeIndexes) ==
    LET functionNameNormalized == toLowerCase(name)
    IN  IF endsWith(functionNameNormalized, HERE) THEN ReadIndex(placeIndexes, "Here")
        ELSE IF endsWith(functionNameNormalized, ESRI) THEN ReadIndex(placeIndexes, "Esri")
        ELSE IF endsWith(functionNameNormalized, GRAB) THEN ReadIndex(placeIndexes, "Grab")
        ELSE Throw("no provider found, invalid function name")

\* getOperationTypeFromFunctionName without the call of toLowerCase
getOperationTypeFromFunctionNameCaseSensitive(name) ==
    IF startsWith(name, GEOCODE) THEN Return("geocode")
    ELSE IF startsWith(name, REVERSE) THEN Return("reverseGeocode")
    ELSE Throw("no operation type found, invalid function name")

\* getOperationTypeFromFunctionName
getOperationTypeFromFunctionName(name) ==
    LET functionNameNormalized == toLowerCase(name)
    IN  IF startsWith(functionNameNormalized, GEOCODE) THEN Return("geocode")
        ELSE IF startsWith(functionNameNormalized, REVERSE) THEN Return("reverseGeocode")
        ELSE Throw("no operation type found, invalid function name")

\* array destructuring: element k of an iterable row, undefined past its end
Elem(row, k) == IF k <= Len(row.f) THEN row.f[k] ELSE UNDEF

\* the command geocodeRows / reverseGeocodeRows builds for a row
Command(op, index, row) ==
    IF op = "reverseGeocode"
    THEN [cmd |-> "SearchPlaceIndexForPosition", IndexName |-> index,
          Text |-> UNDEF, Position |-> <<Elem(row, 2), Elem(row, 3)>>]
    ELSE [cmd |-> "SearchPlaceIndexForText", IndexName |-> index,
          Text |-> Elem(row, 2), Position |-> <<>>]

\* what an awaited locationClient.send settles with: a rejection, or a
\* response whose Results is undefined, empty, or has a first element with
\* or without Place, Place.Label and Place.Geometry.Point
NoPoint == <<>>

BackendReplies ==
    { [kind |-> "error",    Results |-> "undefined", Place |-> FALSE, Label |-> UNDEF, Point |-> NoPoint],
      [kind |-> "nonError", Results |-> "undefined", Place |-> FALSE, Label |-> UNDEF, Point |-> NoPoint],
      [kind |-> "ok", Results |-> "undefined", Place |-> FALSE, Label |-> UNDEF, Point |-> NoPoint],
      [kind |-> "ok", Results |-> "empty",     Place |-> FALSE, Label |-> UNDEF, Point |-> NoPoint],
      [kind |-> "ok", Results |-> "first",     Place |-> FALSE, Label |-> UNDEF, Point |-> NoPoint],
      [kind |-> "ok", Results |-> "first",     Place |-> TRUE,  Label |-> UNDEF, Point |-> NoPoint],
      [kind |-> "ok", Results |-> "first",     Place |-> TRUE,  Label |-> "",    Point |-> <<0, 5>>],
      [kind |-> "ok", Results |-> "first",     Place |-> TRUE,  Label |-> "Berlin", Point |-> <<13, 52>>] }

\* the rejection of a send
SendError(res) ==
    IF res.kind = "error" THEN Throw("backend error") ELSE ThrowNonError

\* res.Results?.[0].Place : the optional chain stops only when Results is
\* undefined; on an empty Results the read of .Place is on undefined
FirstPlace(res) ==
    IF res.Results = "undefined" THEN Return(FALSE)
    ELSE IF res.Results = "empty"
    THEN Throw("Cannot read properties of undefined (reading 'Place')")
    ELSE Return(res.Place)

\* res.Results?.[0].Place?.Geometry?.Point?.[k] || -1
PointOr(res, k) ==
    IF ~FirstPlace(res).v \/ res.Point = NoPoint \/ res.Point[k] = 0
    THEN -1
    ELSE res.Point[k]

\* res.Results?.[0].Place?.Label || "N/A"
LabelOr(res) ==
    IF ~FirstPlace(res).v \/ res.Label = UNDEF \/ res.Label = ""
    THEN "N/A"
    ELSE res.Label

\* the row geocodeRows pushes for a settled send
geocodeRow(row, res) ==
    IF FirstPlace(res).threw THEN FirstPlace(res)
    ELSE Return(<<Elem(row, 1), PointOr(res, 1), PointOr(res, 2)>>)

\* the row reverseGeocodeRows pushes for a settled send
reverseGeocodeRow(row, res) ==
    IF FirstPlace(res).threw THEN FirstPlace(res)
    ELSE Return(<<Elem(row, 1), LabelOr(res)>>)

-----------------------------------------------------------------------------
(* The inputs of the provisioning function and the warehouse *)

IntegrationNames == {"intA", "intB"}

RoleArns == {"role1", "role2"}

BaseUrls == {"url1", "url2"}

\* process.env.AWS_REGION, set by the Lambda runtime
Regions == {"ap-southeast-1", "eu-west-1"}

\* event.ResourceProperties: undefined, or an object with some of the three
\* properties (a property that is not there reads as undefined)
NoProperties ==
    [undef |-> TRUE, keys |-> {}, integrationName |-> UNDEF,
     apiAwsRoleArn |-> UNDEF, apiBaseUrl |-> UNDEF]

\* the deployments: the role and the base URL of one API
Deployments == { <<"role1", "url1">>, <<"role2", "url2">> }

PropertiesValues ==
    { [undef |-> FALSE, keys |-> {"integrationName", "apiAwsRoleArn", "apiBaseUrl"},
       integrationName |-> n, apiAwsRoleArn |-> d[1], apiBaseUrl |-> d[2]] :
          n \in IntegrationNames, d \in Deployments }
    \cup { NoProperties,
           [undef |-> FALSE, keys |-> {"apiAwsRoleArn", "apiBaseUrl"},
            integrationName |-> UNDEF, apiAwsRoleArn |-> "role1",
            apiBaseUrl |-> "url1"] }

\* the CloudFormation custom resource events
EventValues ==
    { [RequestType |-> "Create", ResourceProperties |-> p, PhysicalResourceId |-> UNDEF] :
          p \in PropertiesValues }
    \cup { [RequestType |-> "Update", ResourceProperties |-> p, PhysicalResourceId |-> id] :
          p \in PropertiesValues \ {NoProperties}, id \in IntegrationNames }
    \cup { [RequestType |-> "Delete", ResourceProperties |-> NoProperties,
             PhysicalResourceId |-> id] : id \in IntegrationNames }
    \cup { [RequestType |-> "Replace", ResourceProperties |-> NoProperties,
             PhysicalResourceId |-> "intA"] }

NoEvent ==
    [RequestType |-> "none", ResourceProperties |-> NoProperties,
     PhysicalResourceId |-> UNDEF]

\* the names a statement can give to an integration: an undefined
\* integrationName is interpolated as the text undefined
WarehouseNames == IntegrationNames \cup {UNDEF}

NoIntegration == [exists |-> FALSE, role |-> UNDEF, prefix |-> UNDEF]

NoFunction == [exists |-> FALSE, integration |-> UNDEF, url |-> UNDEF]

-----------------------------------------------------------------------------
(* functions/common/snowflake-helpers.ts: the statements *)

REVERSE_HERE == "reverse_geocode_amazon_location_service_provider_here"
REVERSE_ESRI == "reverse_geocode_amazon_location_service_provider_esri"
GEOCODE_HERE == "geocode_amazon_location_service_provider_here"
GEOCODE_ESRI == "geocode_amazon_location_service_provider_esri"
REVERSE_GRAB == "reverse_geocode_amazon_location_service_provider_grab"
GEOCODE_GRAB == "geocode_amazon_location_service_provider_grab"

FunctionNames ==
    {REVERSE_HERE, REVERSE_ESRI, GEOCODE_HERE, GEOCODE_ESRI, REVERSE_GRAB, GEOCODE_GRAB}

Statement(kind, target, role, url, integration) ==
    [kind |-> kind, target |-> target, role |-> role, url |-> url,
     integration |-> integration]

\* the statement of createApiIntegration with role and prefix exchanged
CreateIntegrationStatementSwapped(integrationName, apiAwsRoleArn, apiAllowedPrefix) ==
    Statement("CREATE OR REPLACE API INTEGRATION", integrationName, apiAllowedPrefix,
              apiAwsRoleArn, UNDEF)

\* the statement of createApiIntegration
CreateIntegrationStatement(integrationName, apiAwsRoleArn, apiAllowedPrefix) ==
    Statement("CREATE OR REPLACE API INTEGRATION", integrationName, apiAwsRoleArn,
              apiAllowedPrefix, UNDEF)

\* the statement of deleteApiIntegration
DropIntegrationStatement(integrationName) ==
    Statement("DROP API INTEGRATION", integrationName, UNDEF, UNDEF, UNDEF)

\* the statement of describeApiIntegration
DescribeStatement(integrationName) ==
    Statement("DESCRIBE INTEGRATION", integrationName, UNDEF, UNDEF, UNDEF)

CreateFunctionStatement(name, options) ==
    Statement("CREATE EXTERNAL FUNCTION", name, UNDEF, options.apiBaseUrl,
              options.integrationName)

DropFunctionStatement(name) ==
    Statement("DROP FUNCTION IF EXISTS", name, UNDEF, UNDEF, UNDEF)

\* getInterpolatedStatements, with the value of AWS_REGION it reads
getInterpolatedStatements(options, awsRegion) ==
    LET statements ==
            << CreateFunctionStatement(REVERSE_HERE, options),
               CreateFunctionStatement(REVERSE_ESRI, options),
               CreateFunctionStatement(GEOCODE_HERE, options),
               CreateFunctionStatement(GEOCODE_ESRI, options) >>
    IN  IF awsRegion = "ap-southeast-1"
        THEN statements \o << CreateFunctionStatement(REVERSE_GRAB, options),
                              CreateFunctionStatement(GEOCODE_GRAB, options) >>
        ELSE statements

\* the statement list of deleteExternalFunctions without its region branch
deleteExternalFunctionsStatementsNoGrab(awsRegion) ==
    << DropFunctionStatement(REVERSE_HERE),
       DropFunctionStatement(REVERSE_ESRI),
       DropFunctionStatement(GEOCODE_HERE),
       DropFunctionStatement(GEOCODE_ESRI) >>

\* the statement list of deleteExternalFunctions, with the value of AWS_REGION
deleteExternalFunctionsStatements(awsRegion) ==
    LET externalFunctionStatements ==
            << DropFunctionStatement(REVERSE_HERE),
               DropFunctionStatement(REVERSE_ESRI),
               DropFunctionStatement(GEOCODE_HERE),
               DropFunctionStatement(GEOCODE_ESRI) >>
    IN  IF awsRegion = "ap-southeast-1"
        THEN externalFunctionStatements
                 \o << DropFunctionStatement(REVERSE_GRAB),
                       DropFunctionStatement(GEOCODE_GRAB) >>
        ELSE externalFunctionStatements

\* what the warehouse does with a statement that reaches it: CREATE OR
\* REPLACE always succeeds; DROP and DESCRIBE of an integration need the
\* integration; CREATE EXTERNAL FUNCTION needs a new name and an existing
\* integration; DROP FUNCTION IF EXISTS always succeeds
Execute(stmt, ints, funs) ==
    IF stmt.kind = "CREATE OR REPLACE API INTEGRATION"
    THEN [ok |-> TRUE,
          integrations |-> [ints EXCEPT ![stmt.target] =
              [exists |-> TRUE, role |-> stmt.role, prefix |-> stmt.url]],
          functions |-> funs]
    ELSE IF stmt.kind = "DROP API INTEGRATION"
    THEN [ok |-> ints[stmt.target].exists,
          integrations |-> [ints EXCEPT ![stmt.target] = NoIntegration],
          functions |-> funs]
    ELSE IF stmt.kind = "DESCRIBE INTEGRATION"
    THEN [ok |-> ints[stmt.target].exists, integrations |-> ints, functions |-> funs]
    ELSE IF stmt.kind = "CREATE EXTERNAL FUNCTION"
    THEN IF ~funs[stmt.target].exists /\ ints[stmt.integration].exists
         THEN [ok |-> TRUE, integrations |-> ints,
               functions |-> [funs EXCEPT ![stmt.target] =
                   [exists |-> TRUE, integration |-> stmt.integration,
                    url |-> stmt.url]]]
         ELSE [ok |-> FALSE, integrations |-> ints, functions |-> funs]
    ELSE [ok |-> TRUE, integrations |-> ints,
          functions |-> [funs EXCEPT ![stmt.target] = NoFunction]]

\* the warehouse after a list of statements
RECURSIVE ExecuteAll(_, _, _)
ExecuteAll(statements, ints, funs) ==
    IF statements = <<>> THEN [integrations |-> ints, functions |-> funs]
    ELSE LET r == Execute(Head(statements), ints, funs)
         IN  ExecuteAll(Tail(statements), r.integrations, r.functions)

\* the warehouses the function can find: an empty one, or one that an
\* earlier Create event has provisioned
EmptyWarehouse ==
    [integrations |-> [n \in WarehouseNames |-> NoIntegration],
     functions |-> [f \in FunctionNames |-> NoFunction]]

Warehouses(awsRegion) ==
    { EmptyWarehouse,
      ExecuteAll(
          <<CreateIntegrationStatement("intA", "role1", "url1")>>
              \o getInterpolatedStatements(
                     [integrationName |-> "intA", apiBaseUrl |-> "url1"], awsRegion),
          EmptyWarehouse.integrations, EmptyWarehouse.functions) }

\* the values the warehouse assigns to an integration
IamUserArnOf(name) == "arn:aws:iam:user/" \o name
ExternalIdOf(name) == "external-id/" \o name

\* what the awaited DESCRIBE settles with: a rejection, or rows that are
\* empty, or lack one of the two properties, or hold both
NoDescribe == [kind |-> "none", empty |-> TRUE, arn |-> UNDEF, ext |-> UNDEF]

DescribeReplies(name) ==
    { [kind |-> "error", empty |-> TRUE,  arn |-> UNDEF, ext |-> UNDEF],
      [kind |-> "rows",  empty |-> TRUE,  arn |-> UNDEF, ext |-> UNDEF],
      [kind |-> "rows",  empty |-> FALSE, arn |-> UNDEF, ext |-> ExternalIdOf(name)],
      [kind |-> "rows",  empty |-> FALSE, arn |-> IamUserArnOf(name), ext |-> UNDEF],
      [kind |-> "rows",  empty |-> FALSE, arn |-> IamUserArnOf(name),
       ext |-> ExternalIdOf(name)] }

\* describeApiIntegration without its check of the two properties
describeApiIntegrationUnchecked(res) ==
    IF res.kind = "error" THEN Throw("statement error")
    ELSE IF res.empty
    THEN Throw("No response from Snowflake - check logs for more details")
    ELSE Return([apiAwsIamUserArn |-> res.arn, apiAwsExternalId |-> res.ext])

\* describeApiIntegration from the settling of its statement on
describeApiIntegration(res) ==
    IF res.kind = "error" THEN Throw("statement error")
    ELSE IF res.empty
    THEN Throw("No response from Snowflake - check logs for more details")
    ELSE IF res.arn = UNDEF \/ res.ext = UNDEF
    THEN Throw("API_AWS_IAM_USER_ARN or API_AWS_EXTERNAL_ID not found in response from Snowflake - check logs")
    ELSE Return([apiAwsIamUserArn |-> res.arn, apiAwsExternalId |-> res.ext])

\* getValuesFromEventProperties
getValuesFromEventProperties(e) ==
    LET properties == e.ResourceProperties
    IN  IF checkData(properties, <<"integrationName", "apiAwsRoleArn", "apiBaseUrl">>)
        THEN Throw("missing properties in CloudFormation event")
        ELSE IF properties.undef
        THEN Throw("Cannot read properties of undefined (reading 'integrationName')")
        ELSE Return([integrationName |-> properties.integrationName,
                     apiAwsRoleArn |-> properties.apiAwsRoleArn,
                     apiBaseUrl |-> properties.apiBaseUrl])

NoResult ==
    [kind |-> "none", PhysicalResourceId |-> UNDEF, API_AWS_IAM_USER_ARN |-> UNDEF,
     API_AWS_EXTERNAL_ID |-> UNDEF, message |-> ""]

NoPrev ==
    [redelivery |-> FALSE, PhysicalResourceId |-> UNDEF,
     integrations |-> [n \in WarehouseNames |-> NoIntegration],
     functions |-> [f \in FunctionNames |-> NoFunction]]

\* the provisioning function before its first event, with an empty warehouse
ReconcilerIdle ==
    /\ region = "eu-west-1"
    /\ event = NoEvent
    /\ rpc = "idle"
    /\ stmtIndex = 0
    /\ integrations = [n \in WarehouseNames |-> NoIntegration]
    /\ functions = [f \in FunctionNames |-> NoFunction]
    /\ stmts = <<>>
    /\ described = NoDescribe
    /\ result = NoResult
    /\ faults = FALSE
    /\ prev = NoPrev
    /\ delivered = 0

\* the SnowflakeClient after its constructor: both optional fields unset
ClientIdle ==
    /\ connectionPool = UNDEF
    /\ connectionOptions = UNDEF
    /\ cpc = "idle"
    /\ sqlText = UNDEF
    /\ executions = 0
    /\ pools = 0
    /\ poolUses = <<>>

\* the inbound calls a process handles at the same time
CallIds == {1, 2}

\* the locals of a call that has not arrived
NoCall ==
    [pc |-> "start", functionName |-> <<>>, rows |-> NoData, operation |-> UNDEF,
     placeIndex |-> UNDEF, i |-> 0, sent |-> <<>>, replies |-> <<>>,
     response |-> [statusCode |-> 0, data |-> <<>>, error |-> ""]]

CallsIdle ==
    /\ calls = [c \in CallIds |-> NoCall]
    /\ resultRowsOf = [c \in CallIds |-> <<>>]

-----------------------------------------------------------------------------
(* functions/handleSnowflakeFunctionRequests.ts *)

NoResponse ==
    [statusCode |-> 0,
     body |-> [hasData |-> FALSE, data |-> <<>>, hasError |-> FALSE, error |-> ""]]

GenericMessage == "An internal error occurred, please try again later."

\* JSON.stringify of a result row: an undefined id is written as null
StringifyRow(r) == [r EXCEPT ![1] = IF @ = UNDEF THEN JNULL ELSE @]

\* return { statusCode, body: JSON.stringify({ error }) }
RespondError(status, message) ==
    /\ response' = [statusCode |-> status,
                    body |-> [hasData |-> FALSE, data |-> <<>>,
                              hasError |-> TRUE, error |-> message]]
    /\ responses' = responses + 1
    /\ pc' = "done"

\* return { statusCode: 200, body: JSON.stringify({ data }) }
RespondData(data) ==
    /\ response' = [statusCode |-> 200,
                    body |-> [hasData |-> TRUE,
                              data |-> [k \in 1..Len(data) |-> StringifyRow(data[k])],
                              hasError |-> FALSE, error |-> ""]]
    /\ responses' = responses + 1
    /\ pc' = "done"

\* a catch block that answers with the rows pushed so far
CatchPartial(thrown) == RespondData(resultRows)

\* no catch block: the exception leaves the handler
CatchRethrow(thrown) ==
    /\ pc' = "done"
    /\ UNCHANGED <<response, responses>>

\* the catch block of the handler
Catch(thrown) ==
    RespondError(500, IF thrown.isError THEN thrown.message ELSE GenericMessage)

\* the head of the loop with a send that is issued a second time
NextRowResend(index, results, k) ==
    IF k = Len(rows'.r)
    THEN /\ RespondData(results)
         /\ resultRows' = results
         /\ UNCHANGED <<i, sent>>
    ELSE IF ~rows'.r[k + 1].iterable
    THEN /\ Catch(Throw("row is not iterable"))
         /\ resultRows' = results
         /\ UNCHANGED <<i, sent>>
    ELSE /\ sent' = Append(Append(sent, Command(operation', index, rows'.r[k + 1])),
                           Command(operation', index, rows'.r[k + 1]))
         /\ i' = k + 1
         /\ resultRows' = results
         /\ pc' = "awaitBackend"
         /\ UNCHANGED <<response, responses>>

\* the head of the loop of geocodeRows / reverseGeocodeRows after k rows:
\* return resultRows at the end of rows; otherwise destructure the next row
\* and pass its command to locationClient.send
NextRow(index, results, k) ==
    IF k = Len(rows'.r)
    THEN /\ RespondData(results)
         /\ resultRows' = results
         /\ UNCHANGED <<i, sent>>
    ELSE IF ~rows'.r[k + 1].iterable
    THEN /\ Catch(Throw("row is not iterable"))
         /\ resultRows' = results
         /\ UNCHANGED <<i, sent>>
    ELSE /\ sent' = Append(sent, Command(operation', index, rows'.r[k + 1]))
         /\ i' = k + 1
         /\ resultRows' = results
         /\ pc' = "awaitBackend"
         /\ UNCHANGED <<response, responses>>

\* geocodeRows / reverseGeocodeRows from their call to the first await
StartRows(index) ==
    IF rows'.dk = "scalar"
    THEN /\ Catch(Throw("rows is not iterable"))
         /\ UNCHANGED <<i, sent, resultRows>>
    ELSE NextRow(index, <<>>, 0)

Init ==
    /\ body \in BodyValues
    /\ headers \in HeaderValues
    /\ env \in EnvValues
    /\ pc = "start"
    /\ functionName = <<>>
    /\ operation = UNDEF
    /\ rows = NoData
    /\ placeIndex = UNDEF
    /\ i = 0
    /\ resultRows = <<>>
    /\ response = NoResponse
    /\ responses = 0
    /\ fetches = 0
    /\ configReply = NoConfigReply
    /\ sent = <<>>
    /\ replies = <<>>
    /\ ReconcilerIdle
    /\ ClientIdle
    /\ CallsIdle

\* the handler from its call to the await of getAppConfig
Receive ==
    /\ pc = "start"
    /\ LET b  == getRowsFromBody(body)
           h  == getSnowflakeFunctionNameFromHeaders(headers)
           op == getOperationTypeFromFunctionName(h.functionName)
           e  == getPlaceIndexesEnv(env)
       IN  IF b._error # UNDEF
           THEN /\ RespondError(400, b._error)
                /\ UNCHANGED <<rows, functionName, operation, fetches>>
           ELSE IF h._error # UNDEF
           THEN /\ RespondError(401, "missing required Snowflake header: sf-external-function-name")
                /\ rows' = b.rows
                /\ UNCHANGED <<functionName, operation, fetches>>
           ELSE IF op.threw
           THEN /\ Catch(op)
                /\ rows' = b.rows
                /\ functionName' = h.functionName
                /\ UNCHANGED <<operation, fetches>>
           ELSE IF e.threw
           THEN /\ Catch(e)
                /\ rows' = b.rows
                /\ functionName' = h.functionName
                /\ operation' = op.v
                /\ UNCHANGED fetches
           ELSE /\ rows' = b.rows
                /\ functionName' = h.functionName
                /\ operation' = op.v
                /\ fetches' = fetches + 1
                /\ pc' = "awaitConfig"
                /\ UNCHANGED <<response, responses>>
    /\ UNCHANGED <<body, headers, env, placeIndex, i, resultRows, configReply,
                   sent, replies>>
    /\ UNCHANGED <<rvars, pvars, cvars>>

\* the awaited getAppConfig settles with reply: rest of getPlaceIndexes and
\* of getPlaceIndexFromFunctionName, then the row loop up to its first await
ConfigReply(reply) ==
    /\ pc = "awaitConfig"
    /\ configReply' = reply
    /\ UNCHANGED <<body, headers, env, functionName, operation, rows, fetches, replies>>
    /\ UNCHANGED <<rvars, pvars, cvars>>
    /\ LET pis == getPlaceIndexes(reply)
           idx == IF pis.threw THEN pis
                  ELSE getPlaceIndexFromFunctionName(functionName, pis.v)
       IN  IF idx.threw
           THEN /\ Catch(idx)
                /\ UNCHANGED <<placeIndex, i, sent, resultRows>>
           ELSE /\ placeIndex' = idx.v
                /\ StartRows(idx.v)

\* the awaited locationClient.send of row i settles with res: push of the
\* result row, then the row loop up to its next await.  A command without
\* IndexName cannot be sent: the client rejects it.
BackendReply(res) ==
    /\ pc = "awaitBackend"
    /\ sent[i].IndexName = UNDEF => res.kind = "error"
    /\ replies' = Append(replies, res)
    /\ UNCHANGED <<body, headers, env, functionName, operation, rows, placeIndex,
                   fetches, configReply>>
    /\ UNCHANGED <<rvars, pvars, cvars>>
    /\ IF res.kind # "ok"
       THEN /\ Catch(SendError(res))
            /\ UNCHANGED <<i, sent, resultRows>>
       ELSE LET r == IF operation = "reverseGeocode"
                     THEN reverseGeocodeRow(rows.r[i], res)
                     ELSE geocodeRow(rows.r[i], res)
            IN  IF r.threw
                THEN /\ Catch(r)
                     /\ UNCHANGED <<i, sent, resultRows>>
                ELSE NextRow(placeIndex, Append(resultRows, r.v), i)

Next ==
    \/ Receive
    \/ \E reply \in ConfigReplies : ConfigReply(reply)
    \/ \E res \in BackendReplies : BackendReply(res)

Spec == Init /\ [][Next]_vars

TypeOK ==
    /\ pc \in {"start", "awaitConfig", "awaitBackend", "done"}
    /\ i \in 0..MaxRows
    /\ responses \in 0..1
    /\ fetches \in 0..1
    /\ Len(sent) = i
    /\ Len(replies) \in {i - 1, i} \cap Nat

-----------------------------------------------------------------------------
(* functions/generateSnowflakeResources.ts: the provisioning handler.  Its
   steps are the pieces between two awaited executeStatement calls. *)

\* the request handler, not invoked
HandlerIdle ==
    /\ body = [kind |-> "null", data |-> NoData]
    /\ headers = [hk |-> "null", v |-> <<>>]
    /\ env = AllEnv
    /\ pc = "start"
    /\ functionName = <<>>
    /\ operation = UNDEF
    /\ rows = NoData
    /\ placeIndex = UNDEF
    /\ i = 0
    /\ resultRows = <<>>
    /\ response = NoResponse
    /\ responses = 0
    /\ fetches = 0
    /\ configReply = NoConfigReply
    /\ sent = <<>>
    /\ replies = <<>>

InitR ==
    /\ HandlerIdle
    /\ region \in Regions
    /\ event = NoEvent
    /\ rpc = "idle"
    /\ stmtIndex = 0
    /\ \E w \in Warehouses(region) :
           /\ integrations = w.integrations
           /\ functions = w.functions
    /\ stmts = <<>>
    /\ described = NoDescribe
    /\ result = NoResult
    /\ faults = FALSE
    /\ prev = NoPrev
    /\ delivered = 0
    /\ ClientIdle
    /\ CallsIdle

\* the destructured return of getValuesFromEventProperties(event)
Values(e) == getValuesFromEventProperties(e).v

\* snowflakeClient.executeStatement(stmt) is called and awaited at position at
IssueOn(log, stmt, at, idx) ==
    /\ stmts' = Append(log, stmt)
    /\ rpc' = at
    /\ stmtIndex' = idx
    /\ result' = NoResult

\* the handler throws
Fails(log, thrown) ==
    /\ stmts' = log
    /\ rpc' = "done"
    /\ stmtIndex' = 0
    /\ result' = [NoResult EXCEPT !.kind = "error", !.message = thrown.message]

\* the handler returns
Succeeds(value) ==
    /\ stmts' = stmts
    /\ rpc' = "done"
    /\ stmtIndex' = 0
    /\ result' = value

\* the return value with the PhysicalResourceId of the event
IntegrationDetailsOldId(e, res) ==
    [kind |-> "ok",
     PhysicalResourceId |-> IF e.RequestType = "Update" THEN e.PhysicalResourceId
                            ELSE Values(e).integrationName,
     API_AWS_IAM_USER_ARN |-> describeApiIntegration(res).v.apiAwsIamUserArn,
     API_AWS_EXTERNAL_ID |-> describeApiIntegration(res).v.apiAwsExternalId,
     message |-> ""]

\* return { PhysicalResourceId: integrationName, Data: { ... } }
IntegrationDetails(e, res) ==
    [kind |-> "ok",
     PhysicalResourceId |-> Values(e).integrationName,
     API_AWS_IAM_USER_ARN |-> describeApiIntegration(res).v.apiAwsIamUserArn,
     API_AWS_EXTERNAL_ID |-> describeApiIntegration(res).v.apiAwsExternalId,
     message |-> ""]

\* return {}
EmptyResponse == [NoResult EXCEPT !.kind = "ok"]

\* createExternalFunctions from its call to its first await
createExternalFunctionsStart(log, e) ==
    LET externalFunctionStatements ==
            getInterpolatedStatements(
                [integrationName |-> Values(e).integrationName,
                 apiBaseUrl |-> Values(e).apiBaseUrl], region)
    IN  IssueOn(log, externalFunctionStatements[1], "createFunctions", 1)

\* updateExternalFunctions without its call of deleteExternalFunctions
deleteExternalFunctionsStartNotOnUpdate(log) ==
    IF event.RequestType = "Update"
    THEN createExternalFunctionsStart(log, event)
    ELSE IssueOn(log, deleteExternalFunctionsStatements(region)[1], "dropFunctions", 1)

\* deleteExternalFunctions from its call to its first await
deleteExternalFunctionsStart(log) ==
    IssueOn(log, deleteExternalFunctionsStatements(region)[1], "dropFunctions", 1)

\* updateApiIntegration without the comparison of the two names
updateApiIntegrationStartAlways(e) ==
    IssueOn(<<>>, DropIntegrationStatement(e.PhysicalResourceId), "dropIntegration", 0)

\* updateApiIntegration from its call to its first await, or to its return
\* and on to the describe when the name has not changed
updateApiIntegrationStart(e) ==
    IF e.PhysicalResourceId # Values(e).integrationName
    THEN IssueOn(<<>>, DropIntegrationStatement(e.PhysicalResourceId),
                 "dropIntegration", 0)
    ELSE IssueOn(<<>>, DescribeStatement(Values(e).integrationName), "describe", 0)

\* the handler with its last branch taken as a Delete
DeliverUnexpectedAsDelete(e) ==
    /\ rpc \in {"idle", "done"}
    /\ delivered < MaxEvents
    /\ delivered' = delivered + 1
    /\ event' = e
    /\ LET again == rpc = "done" /\ e = event /\ result.kind = "ok" /\ ~faults
       IN  prev' = [redelivery |-> again,
                    PhysicalResourceId |-> IF again THEN result.PhysicalResourceId
                                           ELSE UNDEF,
                    integrations |-> integrations, functions |-> functions]
    /\ described' = NoDescribe
    /\ faults' = FALSE
    /\ IF e.RequestType \in {"Create", "Update"}
       THEN IF getValuesFromEventProperties(e).threw
            THEN Fails(<<>>, getValuesFromEventProperties(e))
            ELSE IF e.RequestType = "Create"
            THEN IssueOn(<<>>,
                     CreateIntegrationStatement(Values(e).integrationName,
                         Values(e).apiAwsRoleArn, Values(e).apiBaseUrl),
                     "createIntegration", 0)
            ELSE updateApiIntegrationStart(e)
       ELSE IF e.RequestType = "Delete"
       THEN IssueOn(<<>>, DropIntegrationStatement(e.PhysicalResourceId),
                    "dropIntegration", 0)
       ELSE IssueOn(<<>>, DropIntegrationStatement(e.PhysicalResourceId),
                    "dropIntegration", 0)
    /\ UNCHANGED <<region, integrations, functions>>
    /\ UNCHANGED <<hvars, pvars, cvars>>

\* the handler is invoked with event e, after the previous invocation ended
Deliver(e) ==
    /\ rpc \in {"idle", "done"}
    /\ delivered < MaxEvents
    /\ delivered' = delivered + 1
    /\ event' = e
    /\ LET again == rpc = "done" /\ e = event /\ result.kind = "ok" /\ ~faults
       IN  prev' = [redelivery |-> again,
                    PhysicalResourceId |-> IF again THEN result.PhysicalResourceId
                                           ELSE UNDEF,
                    integrations |-> integrations, functions |-> functions]
    /\ described' = NoDescribe
    /\ faults' = FALSE
    /\ IF e.RequestType \in {"Create", "Update"}
       THEN IF getValuesFromEventProperties(e).threw
            THEN Fails(<<>>, getValuesFromEventProperties(e))
            ELSE IF e.RequestType = "Create"
            THEN IssueOn(<<>>,
                     CreateIntegrationStatement(Values(e).integrationName,
                         Values(e).apiAwsRoleArn, Values(e).apiBaseUrl),
                     "createIntegration", 0)
            ELSE updateApiIntegrationStart(e)
       ELSE IF e.RequestType = "Delete"
       THEN IssueOn(<<>>, DropIntegrationStatement(e.PhysicalResourceId),
                    "dropIntegration", 0)
       ELSE Fails(<<>>, Throw("Unexpected event.RequestType - see logs for details"))
    /\ UNCHANGED <<region, integrations, functions>>
    /\ UNCHANGED <<hvars, pvars, cvars>>

\* the statement being awaited, and what the warehouse does with it
Awaited == stmts[Len(stmts)]

Executed == Execute(Awaited, integrations, functions)

\* the awaited CREATE OR REPLACE API INTEGRATION settles (fault: it fails
\* for a reason of transport, and does not reach the warehouse)
IntegrationCreated(fault) ==
    /\ rpc = "createIntegration"
    /\ faults' = (faults \/ fault)
    /\ IF ~fault /\ Executed.ok
       THEN /\ integrations' = Executed.integrations
            /\ IssueOn(stmts, DescribeStatement(Values(event).integrationName),
                       "describe", 0)
       ELSE /\ Fails(stmts, Throw("statement error"))
            /\ UNCHANGED integrations
    /\ UNCHANGED <<region, event, functions, described, prev, delivered>>
    /\ UNCHANGED <<hvars, pvars, cvars>>

\* the awaited DROP API INTEGRATION settles, its failure swallowed by Delete
IntegrationDroppedSwallowed(fault) ==
    /\ rpc = "dropIntegration"
    /\ faults' = (faults \/ fault)
    /\ IF ~fault /\ Executed.ok
       THEN /\ integrations' = Executed.integrations
            /\ IF event.RequestType = "Update"
               THEN IssueOn(stmts,
                        CreateIntegrationStatement(Values(event).integrationName,
                            Values(event).apiAwsRoleArn, Values(event).apiBaseUrl),
                        "createIntegration", 0)
               ELSE deleteExternalFunctionsStart(stmts)
       ELSE /\ IF event.RequestType = "Update"
               THEN Fails(stmts, Throw("statement error"))
               ELSE deleteExternalFunctionsStart(stmts)
            /\ UNCHANGED integrations
    /\ UNCHANGED <<region, event, functions, described, prev, delivered>>
    /\ UNCHANGED <<hvars, pvars, cvars>>

\* the awaited DROP API INTEGRATION settles
IntegrationDropped(fault) ==
    /\ rpc = "dropIntegration"
    /\ faults' = (faults \/ fault)
    /\ IF ~fault /\ Executed.ok
       THEN /\ integrations' = Executed.integrations
            /\ IF event.RequestType = "Update"
               THEN IssueOn(stmts,
                        CreateIntegrationStatement(Values(event).integrationName,
                            Values(event).apiAwsRoleArn, Values(event).apiBaseUrl),
                        "createIntegration", 0)
               ELSE deleteExternalFunctionsStart(stmts)
       ELSE /\ Fails(stmts, Throw("statement error"))
            /\ UNCHANGED integrations
    /\ UNCHANGED <<region, event, functions, described, prev, delivered>>
    /\ UNCHANGED <<hvars, pvars, cvars>>

\* the awaited DESCRIBE INTEGRATION settles with res
Described(res) ==
    /\ rpc = "describe"
    /\ ~Executed.ok => res.kind = "error"
    /\ described' = res
    /\ faults' = (faults \/ (Executed.ok /\ describeApiIntegration(res).threw))
    /\ IF describeApiIntegration(res).threw
       THEN Fails(stmts, describeApiIntegration(res))
       ELSE IF event.RequestType = "Create"
       THEN createExternalFunctionsStart(stmts, event)
       ELSE deleteExternalFunctionsStart(stmts)
    /\ UNCHANGED <<region, event, integrations, functions, prev, delivered>>
    /\ UNCHANGED <<hvars, pvars, cvars>>

\* the awaited DROP FUNCTION IF EXISTS settles
FunctionDropped(fault) ==
    /\ rpc = "dropFunctions"
    /\ faults' = (faults \/ fault)
    /\ IF ~fault /\ Executed.ok
       THEN /\ functions' = Executed.functions
            /\ IF stmtIndex < Len(deleteExternalFunctionsStatements(region))
               THEN IssueOn(stmts,
                        deleteExternalFunctionsStatements(region)[stmtIndex + 1],
                        "dropFunctions", stmtIndex + 1)
               ELSE IF event.RequestType = "Update"
               THEN createExternalFunctionsStart(stmts, event)
               ELSE Succeeds(EmptyResponse)
       ELSE /\ Fails(stmts, Throw("statement error"))
            /\ UNCHANGED functions
    /\ UNCHANGED <<region, event, integrations, described, prev, delivered>>
    /\ UNCHANGED <<hvars, pvars, cvars>>

\* the awaited CREATE EXTERNAL FUNCTION settles
FunctionCreated(fault) ==
    /\ rpc = "createFunctions"
    /\ faults' = (faults \/ fault)
    /\ IF ~fault /\ Executed.ok
       THEN /\ functions' = Executed.functions
            /\ LET externalFunctionStatements ==
                       getInterpolatedStatements(
                           [integrationName |-> Values(event).integrationName,
                            apiBaseUrl |-> Values(event).apiBaseUrl], region)
               IN  IF stmtIndex < Len(externalFunctionStatements)
                   THEN IssueOn(stmts, externalFunctionStatements[stmtIndex + 1],
                                "createFunctions", stmtIndex + 1)
                   ELSE Succeeds(IntegrationDetails(event, described))
       ELSE /\ Fails(stmts, Throw("statement error"))
            /\ UNCHANGED functions
    /\ UNCHANGED <<region, event, integrations, described, prev, delivered>>
    /\ UNCHANGED <<hvars, pvars, cvars>>

NextR ==
    \/ \E e \in EventValues : Deliver(e)
    \/ \E fault \in BOOLEAN : IntegrationCreated(fault)
    \/ \E fault \in BOOLEAN : IntegrationDropped(fault)
    \/ /\ rpc = "describe"
       /\ \E res \in DescribeReplies(Awaited.target) : Described(res)
    \/ \E fault \in BOOLEAN : FunctionDropped(fault)
    \/ \E fault \in BOOLEAN : FunctionCreated(fault)

SpecR == InitR /\ [][NextR]_vars

TypeOKR ==
    /\ rpc \in {"idle", "createIntegration", "dropIntegration", "describe",
                "dropFunctions", "createFunctions", "done"}
    /\ delivered \in 0..MaxEvents
    /\ result.kind \in {"none", "ok", "error"}
    /\ rpc = "done" <=> result.kind # "none"

-----------------------------------------------------------------------------
(* functions/common/snowflake-helpers.ts: the class SnowflakeClient and its
   process-wide instance snowflakeClient *)

\* the texts executeStatement is called with
SqlTexts ==
    {"CREATE OR REPLACE API INTEGRATION", "DROP API INTEGRATION",
     "DESCRIBE INTEGRATION", "CREATE EXTERNAL FUNCTION", "DROP FUNCTION IF EXISTS"}

\* what getSnowflakeAccountInfo and getSnowflakeWarehouseConfig resolve to
OPTIONS == "connection options"

InitP ==
    /\ HandlerIdle
    /\ ReconcilerIdle
    /\ ClientIdle
    /\ CallsIdle

\* createPool(options, {max: 10, min: 0}) returns a new pool, and
\* executeStatement passes its callback to the use of that pool
createPool(text) ==
    /\ pools' = pools + 1
    /\ poolUses' = Append(poolUses, [pool |-> pools + 1, sqlText |-> text])
    /\ cpc' = "executing"

\* executeStatement from its call to its first await that does not settle
\* at once: getConnectionPool, and in it getConnectionOptions
executeStatement(text) ==
    /\ cpc = "idle"
    /\ executions < MaxExecutions
    /\ executions' = executions + 1
    /\ sqlText' = text
    /\ IF connectionPool # UNDEF
       THEN /\ poolUses' = Append(poolUses, [pool |-> connectionPool, sqlText |-> text])
            /\ cpc' = "executing"
            /\ UNCHANGED pools
       ELSE IF connectionOptions # UNDEF
       THEN createPool(text)
       ELSE /\ cpc' = "awaitAccountInfo"
            /\ UNCHANGED <<pools, poolUses>>
    /\ UNCHANGED <<connectionPool, connectionOptions>>
    /\ UNCHANGED <<hvars, rvars, cvars>>

\* the awaited getSnowflakeAccountInfo settles
AccountInfoReply(ok) ==
    /\ cpc = "awaitAccountInfo"
    /\ cpc' = IF ok THEN "awaitWarehouseConfig" ELSE "idle"
    /\ UNCHANGED <<connectionPool, connectionOptions, sqlText, executions, pools, poolUses>>
    /\ UNCHANGED <<hvars, rvars, cvars>>

\* the awaited getSnowflakeWarehouseConfig settles: connectionOptions is
\* assigned, and getConnectionPool returns the pool createPool makes
WarehouseConfigReply(ok) ==
    /\ cpc = "awaitWarehouseConfig"
    /\ IF ok
       THEN /\ connectionOptions' = OPTIONS
            /\ createPool(sqlText)
       ELSE /\ cpc' = "idle"
            /\ UNCHANGED <<connectionOptions, pools, poolUses>>
    /\ UNCHANGED <<connectionPool, sqlText, executions>>
    /\ UNCHANGED <<hvars, rvars, cvars>>

\* the complete callback of the statement runs, with or without an error
StatementComplete(err) ==
    /\ cpc = "executing"
    /\ cpc' = "idle"
    /\ UNCHANGED <<connectionPool, connectionOptions, sqlText, executions, pools, poolUses>>
    /\ UNCHANGED <<hvars, rvars, cvars>>

NextP ==
    \/ \E text \in SqlTexts : executeStatement(text)
    \/ \E ok \in BOOLEAN : AccountInfoReply(ok)
    \/ \E ok \in BOOLEAN : WarehouseConfigReply(ok)
    \/ \E err \in BOOLEAN : StatementComplete(err)

SpecP == InitP /\ [][NextP]_vars

-----------------------------------------------------------------------------
(* Two inbound calls in one process.  Each call runs the handler of
   functions/handleSnowflakeFunctionRequests.ts with its own locals; the
   calls interleave at the awaits (getAppConfig, locationClient.send). *)

\* the id column of row k of call c
IdOf(c, k) == "call" \o ToString(c) \o "-row" \o ToString(k)

\* the rows of call c: n rows that serve both operations
CallRows(c, n) ==
    [k \in 1..n |-> [iterable |-> TRUE, f |-> <<IdOf(c, k), "13.40", "52.52">>]]

\* event.body of call c
CallBodies(c) ==
    { [kind |-> "object", data |-> [dk |-> "rows", r |-> CallRows(c, n)]] :
          n \in 0..MaxRows }

\* event.headers of a call
CallHeaders ==
    { [hk |-> "value", v |-> GEOCODE \o <<"_","h","e","r","e">>],
      [hk |-> "value", v |-> REVERSE \o <<"_","E","S","R","I">>],
      [hk |-> "absent", v |-> <<>>] }

\* what getAppConfig settles with for a call
CallConfigReplies ==
    { [kind |-> "error", undef |-> TRUE, keys |-> {}],
      [kind |-> "data",  undef |-> FALSE, keys |-> ConfigKeys] }

\* what locationClient.send settles with for a call
CallBackendReplies ==
    { r \in BackendReplies :
          \/ r.kind = "error"
          \/ r.kind = "ok" /\ r.Results = "undefined"
          \/ r.kind = "ok" /\ r.Label = "Berlin" }

\* an array declared at module level, one for all calls
ScopeModule(c) == 1

\* const resultRows = [] is a local of geocodeRows / reverseGeocodeRows:
\* every call of the function has an array of its own
Scope(c) == c

\* return { statusCode, body: JSON.stringify({ error }) }
RespondErrorC(rec, status, message) ==
    [rec EXCEPT !.pc = "done",
                !.response = [statusCode |-> status, data |-> <<>>, error |-> message]]

\* the catch block of the handler
CatchC(rec, thrown) ==
    RespondErrorC(rec, 500, IF thrown.isError THEN thrown.message ELSE GenericMessage)

\* the head of the loop of geocodeRows / reverseGeocodeRows in a call whose
\* array holds results: return at the end of rows, else send the next row
NextRowC(rec, results) ==
    IF rec.i = Len(rec.rows.r)
    THEN [rec EXCEPT !.pc = "done",
                     !.response = [statusCode |-> 200,
                                   data |-> [k \in 1..Len(results) |->
                                                StringifyRow(results[k])],
                                   error |-> ""]]
    ELSE IF ~rec.rows.r[rec.i + 1].iterable
    THEN CatchC(rec, Throw("row is not iterable"))
    ELSE [rec EXCEPT !.pc = "awaitBackend",
                     !.i = rec.i + 1,
                     !.sent = Append(rec.sent,
                                     Command(rec.operation, rec.placeIndex,
                                             rec.rows.r[rec.i + 1]))]

InitC ==
    /\ HandlerIdle
    /\ ReconcilerIdle
    /\ ClientIdle
    /\ CallsIdle

\* call c: the handler from its call to the await of getAppConfig
ReceiveC(c, b, h) ==
    /\ calls[c].pc = "start"
    /\ LET rb == getRowsFromBody(b)
           fn == getSnowflakeFunctionNameFromHeaders(h)
           op == getOperationTypeFromFunctionName(fn.functionName)
           e  == getPlaceIndexesEnv(env)
           rec == [calls[c] EXCEPT !.rows = rb.rows]
       IN  calls' = [calls EXCEPT ![c] =
               IF rb._error # UNDEF THEN RespondErrorC(calls[c], 400, rb._error)
               ELSE IF fn._error # UNDEF
               THEN RespondErrorC(rec, 401,
                        "missing required Snowflake header: sf-external-function-name")
               ELSE IF op.threw
               THEN CatchC([rec EXCEPT !.functionName = fn.functionName], op)
               ELSE IF e.threw
               THEN CatchC([rec EXCEPT !.functionName = fn.functionName,
                                       !.operation = op.v], e)
               ELSE [rec EXCEPT !.functionName = fn.functionName,
                                !.operation = op.v,
                                !.pc = "awaitConfig"]]
    /\ UNCHANGED resultRowsOf
    /\ UNCHANGED <<hvars, rvars, pvars>>

\* call c: the awaited getAppConfig settles; the row function is entered,
\* declares its array and runs to its first await
ConfigReplyC(c, reply) ==
    /\ calls[c].pc = "awaitConfig"
    /\ LET pis == getPlaceIndexes(reply)
           idx == IF pis.threw THEN pis
                  ELSE getPlaceIndexFromFunctionName(calls[c].functionName, pis.v)
       IN  IF idx.threw
           THEN /\ calls' = [calls EXCEPT ![c] = CatchC(calls[c], idx)]
                /\ UNCHANGED resultRowsOf
           ELSE /\ resultRowsOf' = [resultRowsOf EXCEPT ![Scope(c)] = <<>>]
                /\ calls' = [calls EXCEPT ![c] =
                       NextRowC([calls[c] EXCEPT !.placeIndex = idx.v], <<>>)]
    /\ UNCHANGED <<hvars, rvars, pvars>>

\* call c: the awaited locationClient.send settles with res; the result row
\* is pushed on the array of the call and the loop runs to its next await
BackendReplyC(c, res) ==
    /\ calls[c].pc = "awaitBackend"
    /\ LET rec == [calls[c] EXCEPT !.replies = Append(calls[c].replies, res)]
           r   == IF rec.operation = "reverseGeocode"
                  THEN reverseGeocodeRow(rec.rows.r[rec.i], res)
                  ELSE geocodeRow(rec.rows.r[rec.i], res)
           pushed == Append(resultRowsOf[Scope(c)], r.v)
       IN  IF res.kind # "ok"
           THEN /\ calls' = [calls EXCEPT ![c] = CatchC(rec, SendError(res))]
                /\ UNCHANGED resultRowsOf
           ELSE IF r.threw
           THEN /\ calls' = [calls EXCEPT ![c] = CatchC(rec, r)]
                /\ UNCHANGED resultRowsOf
           ELSE /\ resultRowsOf' = [resultRowsOf EXCEPT ![Scope(c)] = pushed]
                /\ calls' = [calls EXCEPT ![c] = NextRowC(rec, pushed)]
    /\ UNCHANGED <<hvars, rvars, pvars>>

NextC ==
    \/ \E c \in CallIds : \E b \in CallBodies(c) : \E h \in CallHeaders : ReceiveC(c, b, h)
    \/ \E c \in CallIds : \E reply \in CallConfigReplies : ConfigReplyC(c, reply)
    \/ \E c \in CallIds : \E res \in CallBackendReplies : BackendReplyC(c, res)

SpecC == InitC /\ [][NextC]_vars

-----------------------------------------------------------------------------
(* Vocabulary of the properties *)

Done == pc = "done"

Status == response.statusCode

\* the body is a JSON object whose data field is a truthy value
DecodableBody == body.kind = "object" /\ body.data.dk \in {"scalar", "rows"}

\* the body is not JSON, is not a JSON object, or has no data field
UndecodableBody ==
    \/ body.kind \in {"null", "empty", "notjson", "scalar", "jsonnull", "array"}
    \/ body.kind = "object" /\ body.data.dk = "absent"

\* the header sf-external-function-name is absent
HeaderAbsent == headers.hk \in {"null", "absent"}

\* the header is present and names a function
HeaderNamed == headers.hk = "value" /\ headers.v # <<>>

\* two characters equal up to letter case
SameLetter(c, d) ==
    \/ c = d
    \/ \E k \in 1..Len(Upper) : {c, d} = {Upper[k], Lower[k]}

HasPrefixCI(n, p) ==
    Len(n) >= Len(p) /\ \A k \in 1..Len(p) : SameLetter(n[k], p[k])

HasSuffixCI(n, p) ==
    Len(n) >= Len(p) /\ \A k \in 1..Len(p) : SameLetter(n[Len(n) - Len(p) + k], p[k])

\* the provider key the suffix of a name selects, UNDEF for none
ProviderKey(n) ==
    IF HasSuffixCI(n, HERE) THEN "Here"
    ELSE IF HasSuffixCI(n, ESRI) THEN "Esri"
    ELSE IF HasSuffixCI(n, GRAB) THEN "Grab"
    ELSE UNDEF

\* the row loop of geocodeRows / reverseGeocodeRows has been entered
Dispatched ==
    /\ configReply.kind # "none"
    /\ ~getPlaceIndexes(configReply).threw
    /\ ~getPlaceIndexFromFunctionName(functionName, configReply).threw

\* the row has not the arity of the operation
Malformed(op, row) ==
    \/ ~row.iterable
    \/ Len(row.f) # (IF op = "reverseGeocode" THEN 3 ELSE 2)

\* a settled send that carries no match
NoMatch(op, res) ==
    /\ res.kind = "ok"
    /\ \/ res.Results \in {"undefined", "empty"}
       \/ ~res.Place
       \/ op = "geocode" /\ res.Point = NoPoint
       \/ op = "reverseGeocode" /\ res.Label = UNDEF

\* the result row of a row without match
SentinelRow(op, row) ==
    IF op = "reverseGeocode" THEN <<Elem(row, 1), "N/A">>
    ELSE <<Elem(row, 1), -1, -1>>

-----------------------------------------------------------------------------
(* Properties *)

\* C1: when every send of a batch of well-formed rows succeeds, the handler
\* returns one result row per input row, in input order, each starting
\* with the id of its input row (for every batch length, 0 included).
C1_OneRowPerInputRow ==
    ( /\ Done
      /\ Dispatched
      /\ rows.dk = "rows"
      /\ \A j \in 1..Len(rows.r) : ~Malformed(operation, rows.r[j])
      /\ Len(replies) = Len(sent)
      /\ \A k \in 1..Len(replies) : replies[k].kind = "ok" )
    => /\ Status = 200
       /\ Len(resultRows) = Len(rows.r)
       /\ Len(response.body.data) = Len(rows.r)
       /\ \A j \in 1..Len(rows.r) : resultRows[j][1] = Elem(rows.r[j], 1)

\* C2: when the send of row k is rejected the call ends with status 500,
\* an error and no data (the rows pushed before k are dropped), and no send
\* is issued for a row after k.
C2_FailFast ==
    \A k \in 1..Len(replies) :
        replies[k].kind # "ok" =>
            /\ Done
            /\ Status = 500
            /\ response.body.hasError
            /\ ~response.body.hasData
            /\ response.body.data = <<>>
            /\ Len(sent) = k

C2_Witness ==
    /\ Done
    /\ Len(replies) = 2
    /\ replies[1].kind = "ok"
    /\ replies[2].kind = "error"
    /\ Len(resultRows) = 1
    /\ Status = 500

\* C3: a call returns at most once, and has ended exactly when it has
\* returned; until then it can take a step (no exception leaves the
\* handler); the returned status is 200, 400, 401 or 500, with a data field
\* exactly on 200 and an error string exactly on 400, 401 and 500.
C3_OneResponse ==
    /\ responses <= 1
    /\ Done <=> responses = 1
    /\ ~Done => response = NoResponse /\ ENABLED Next
    /\ Done => /\ Status \in {200, 400, 401, 500}
               /\ response.body.hasData <=> Status = 200
               /\ response.body.hasError <=> Status \in {400, 401, 500}

C3_Witness ==
    /\ Done
    /\ responses = 1
    /\ Len(replies) >= 1
    /\ replies[Len(replies)].kind = "nonError"
    /\ Status = 500
    /\ response.body.error = GenericMessage

\* C4: a body that cannot be decoded is answered with 400 whatever the
\* headers are, without AppConfig fetch and without send.
C4_BadBody400 ==
    UndecodableBody =>
        /\ fetches = 0
        /\ sent = <<>>
        /\ Done => Status = 400 /\ response.body.error = "invalid body"

C4_Witness ==
    /\ Done
    /\ body.kind = "array"
    /\ HeaderAbsent
    /\ Status = 400

\* C5 (as stated): with a decodable body the answer is 401 exactly when
\* the header sf-external-function-name is absent.
C5_Original ==
    Done /\ DecodableBody => (Status = 401 <=> HeaderAbsent)

\* C5 (amended): with a decodable body the answer is 401 exactly when the
\* header is absent or its value is the empty string; on 401 there is no
\* AppConfig fetch and no send; otherwise the header value is the function
\* name, verbatim.
C5_Amended ==
    DecodableBody /\ pc # "start" =>
        /\ (Done /\ Status = 401) <=> ~HeaderNamed
        /\ ~HeaderNamed => fetches = 0 /\ sent = <<>>
        /\ HeaderNamed => functionName = headers.v

C5_Witness ==
    /\ Done
    /\ DecodableBody
    /\ headers.hk = "value"
    /\ headers.v = <<>>
    /\ Status = 401
    /\ fetches = 0

\* C6: with a decodable body and a named header, a failure of operation
\* classification, of provider resolution or of index resolution
\* (environment, AppConfig fetch, missing entry of the map) is answered with
\* 500 and an error, and no send is issued.
C6_ResolutionFailure500 ==
    ( /\ DecodableBody
      /\ HeaderNamed
      /\ pc \notin {"start", "awaitConfig"}
      /\ \/ ~HasPrefixCI(headers.v, GEOCODE) /\ ~HasPrefixCI(headers.v, REVERSE)
         \/ ProviderKey(headers.v) = UNDEF
         \/ env # AllEnv
         \/ configReply.kind = "error"
         \/ configReply.undef
         \/ ProviderKey(headers.v) \notin configReply.keys )
    => /\ Done
       /\ Status = 500
       /\ response.body.hasError
       /\ sent = <<>>

\* C7: a settled send without match (Results absent, Results empty, first
\* result without place, geometry or label) yields the row (id, -1, -1) of
\* geocodeRows, (id, "N/A") of reverseGeocodeRows.
C7_NoMatchSentinel ==
    \A k \in 1..Len(replies) :
        NoMatch(operation, replies[k]) =>
            /\ Len(resultRows) >= k
            /\ resultRows[k] = SentinelRow(operation, rows.r[k])

\* C8: no send is issued for a row whose arity is not that of the
\* operation, and a request with such a row, or whose data is not a
\* sequence of rows, is answered with the request-validation status 400.
C8_ArityValidated ==
    /\ \A j \in 1..Len(sent) : ~Malformed(operation, rows.r[j])
    /\ ( /\ Done
         /\ Dispatched
         /\ \/ rows.dk = "scalar"
            \/ \E j \in 1..Len(rows.r) : Malformed(operation, rows.r[j]) )
       => Status = 400

\* C9: when the AppConfig fetch fails, or the fetched map has no entry for
\* the provider key of the name, index resolution fails: the answer is 500,
\* no send is issued, and no undefined index is returned.
C9_IndexResolutionFails ==
    /\ ( /\ configReply.kind # "none"
         /\ ProviderKey(functionName) # UNDEF
         /\ \/ configReply.kind = "error"
            \/ configReply.undef
            \/ ProviderKey(functionName) \notin configReply.keys )
       => Done /\ Status = 500 /\ sent = <<>>
    /\ Dispatched => placeIndex # UNDEF

\* C10: the operation is decided by a prefix of the name, whatever the
\* letter case: geocode gives geocode, reverse gives reverseGeocode, any
\* other name the error of an unrecognized operation (500, before any
\* AppConfig fetch); no name gets both.
C10_OperationPrefix ==
    DecodableBody /\ HeaderNamed /\ pc # "start" =>
        LET g == HasPrefixCI(headers.v, GEOCODE)
            r == HasPrefixCI(headers.v, REVERSE)
        IN  /\ ~(g /\ r)
            /\ g => operation = "geocode"
            /\ r => operation = "reverseGeocode"
            /\ ~g /\ ~r =>
                   /\ operation = UNDEF
                   /\ Done
                   /\ Status = 500
                   /\ response.body.error = "no operation type found, invalid function name"
                   /\ fetches = 0

C10_Witness ==
    /\ pc = "awaitConfig"
    /\ headers.v[1] = "R"
    /\ headers.v[2] = "E"
    /\ operation = "reverseGeocode"

\* C11: once the index map is fetched, the provider is decided by a suffix
\* of the name, whatever the letter case: here gives the Here index of the
\* map, esri the Esri index, grab the Grab index (for a map that holds the
\* entry), and any other name the error "no provider found, invalid
\* function name" (500, no send).
C11_ProviderSuffix ==
    ( /\ configReply.kind = "data"
      /\ configReply.keys \subseteq ConfigKeys )
    => LET key == ProviderKey(functionName)
       IN  /\ key = UNDEF =>
                  /\ Done
                  /\ Status = 500
                  /\ response.body.error = "no provider found, invalid function name"
                  /\ placeIndex = UNDEF
                  /\ sent = <<>>
           /\ (key # UNDEF /\ key \in configReply.keys) =>
                  /\ placeIndex = PlaceIndexName[key]
                  /\ \A j \in 1..Len(sent) : sent[j].IndexName = PlaceIndexName[key]

C11_Witness ==
    /\ Len(sent) >= 1
    /\ Len(functionName) >= 4
    /\ SubSeq(functionName, Len(functionName) - 3, Len(functionName)) = <<"G","r","a","b">>
    /\ sent[1].IndexName = "GrabPlaceIndex"

\* the body is a JSON object whose data field is null, 0, "" or false
FalsyData == body.kind = "object" /\ body.data.dk = "falsy"

\* C12 (as stated): the body is refused as invalid exactly when it is not
\* JSON, is not a JSON object, or has no data field; in every other case
\* the rows are the value of the data field.
C12_Original ==
    pc # "start" =>
        /\ (Done /\ Status = 400) <=> UndecodableBody
        /\ ~UndecodableBody => rows = body.data

\* C12 (amended): the body is refused as invalid exactly when it is not
\* JSON, is not a JSON object, has no data field, or has a data field that
\* is null, 0, "" or false; in every other case the rows are the value of
\* the data field, unchanged.
C12_Amended ==
    pc # "start" =>
        /\ (Done /\ Status = 400) <=> (UndecodableBody \/ FalsyData)
        /\ (Done /\ Status = 400) => response.body.error = "invalid body"
        /\ ~(UndecodableBody \/ FalsyData) => rows = body.data

C12_Witness ==
    /\ FalsyData
    /\ Done
    /\ Status = 400
    /\ response.body.error = "invalid body"

\* the requested properties of the event being handled
Requested == event.ResourceProperties

\* the positions of the statements of a kind in the statements issued
Issued(kind) == { j \in 1..Len(stmts) : stmts[j].kind = kind }

\* the external functions of the deployment region
RegionFunctions ==
    {REVERSE_HERE, REVERSE_ESRI, GEOCODE_HERE, GEOCODE_ESRI}
        \cup (IF region = "ap-southeast-1" THEN {REVERSE_GRAB, GEOCODE_GRAB} ELSE {})

\* a settled describe that is a failure of the describe step
DescribeFailure(res) ==
    \/ res.kind = "error"
    \/ res.kind = "rows" /\ (res.empty \/ res.arn = UNDEF \/ res.ext = UNDEF)

\* the handler has returned (not thrown)
Returned == rpc = "done" /\ result.kind = "ok"

\* C13: a Create event issues first the integration create statement with
\* the requested name, role ARN and allowed prefix, second the describe of
\* that name, then only function create statements bound to that name and
\* the requested base URL; when it returns, every function of the region
\* has been created and the result holds the requested name as
\* PhysicalResourceId and the ARN and external id the describe read.
C13_CreateOrder ==
    (event.RequestType = "Create" /\ ~Requested.undef) =>
        /\ Len(stmts) >= 1 =>
               /\ stmts[1].kind = "CREATE OR REPLACE API INTEGRATION"
               /\ stmts[1].target = Requested.integrationName
               /\ stmts[1].role = Requested.apiAwsRoleArn
               /\ stmts[1].url = Requested.apiBaseUrl
        /\ Len(stmts) >= 2 =>
               /\ stmts[2].kind = "DESCRIBE INTEGRATION"
               /\ stmts[2].target = Requested.integrationName
        /\ \A j \in 3..Len(stmts) :
               /\ stmts[j].kind = "CREATE EXTERNAL FUNCTION"
               /\ stmts[j].integration = Requested.integrationName
               /\ stmts[j].url = Requested.apiBaseUrl
        /\ Returned =>
               /\ { stmts[j].target : j \in 3..Len(stmts) } = RegionFunctions
               /\ Len(stmts) = 2 + Cardinality(RegionFunctions)
               /\ result.PhysicalResourceId = Requested.integrationName
               /\ described.kind = "rows"
               /\ described.arn # UNDEF
               /\ described.ext # UNDEF
               /\ result.API_AWS_IAM_USER_ARN = described.arn
               /\ result.API_AWS_EXTERNAL_ID = described.ext

C13_Witness ==
    /\ event.RequestType = "Create"
    /\ Returned
    /\ region = "ap-southeast-1"
    /\ result.PhysicalResourceId = "intB"
    /\ Requested.apiAwsRoleArn = "role2"
    /\ Requested.apiBaseUrl = "url2"
    /\ Len(stmts) = 8
    /\ result.API_AWS_IAM_USER_ARN = IamUserArnOf("intB")

\* C14: when the describe of a Create event fails (rejected statement,
\* empty reply, reply without the ARN or without the external id), the
\* event fails with the error of the describe, no function create
\* statement is issued and no PhysicalResourceId is returned.
C14_DescribeFailureFailsCreate ==
    ( /\ event.RequestType = "Create"
      /\ described.kind # "none"
      /\ DescribeFailure(described) )
    => /\ rpc = "done"
       /\ result.kind = "error"
       /\ result.PhysicalResourceId = UNDEF
       /\ Issued("CREATE EXTERNAL FUNCTION") = {}
       /\ stmts[Len(stmts)].kind = "DESCRIBE INTEGRATION"
       /\ functions = prev.functions
       /\ (described.kind = "rows" /\ described.empty) =>
              result.message = "No response from Snowflake - check logs for more details"
       /\ (described.kind = "rows" /\ ~described.empty) =>
              result.message = "API_AWS_IAM_USER_ARN or API_AWS_EXTERNAL_ID not found in response from Snowflake - check logs"

C14_Witness ==
    /\ event.RequestType = "Create"
    /\ described.kind = "rows"
    /\ ~described.empty
    /\ described.arn # UNDEF
    /\ described.ext = UNDEF
    /\ result.kind = "error"
    /\ integrations[Requested.integrationName].exists

\* an Update event that keeps / changes the name of the integration
UpdateSameName ==
    /\ event.RequestType = "Update"
    /\ ~Requested.undef
    /\ event.PhysicalResourceId = Requested.integrationName

UpdateNewName ==
    /\ event.RequestType = "Update"
    /\ ~Requested.undef
    /\ event.PhysicalResourceId # Requested.integrationName

\* C15: an Update event whose PhysicalResourceId is the requested name
\* issues no DROP and no CREATE of an integration: its first statement is
\* the describe of that name, the integrations of the warehouse stay as
\* they were when the event arrived (whatever role and URL are requested),
\* and what it returns is the name and the described ARN and external id.
C15_UpdateSameNameKeepsIntegration ==
    UpdateSameName =>
        /\ Issued("DROP API INTEGRATION") = {}
        /\ Issued("CREATE OR REPLACE API INTEGRATION") = {}
        /\ integrations = prev.integrations
        /\ Len(stmts) >= 1 =>
               /\ stmts[1].kind = "DESCRIBE INTEGRATION"
               /\ stmts[1].target = Requested.integrationName
        /\ Issued("DESCRIBE INTEGRATION") \subseteq {1}
        /\ Returned =>
               /\ result.PhysicalResourceId = Requested.integrationName
               /\ result.API_AWS_IAM_USER_ARN = described.arn
               /\ result.API_AWS_EXTERNAL_ID = described.ext

C15_Witness ==
    /\ UpdateSameName
    /\ Returned
    /\ integrations[Requested.integrationName].exists
    /\ integrations[Requested.integrationName].role # Requested.apiAwsRoleArn
    /\ integrations[Requested.integrationName].prefix # Requested.apiBaseUrl

\* C16: an Update event whose PhysicalResourceId is not the requested name
\* issues first the drop of the integration named by the PhysicalResourceId,
\* second the create of the integration of the requested name, third the
\* describe of the requested name; when it returns, PhysicalResourceId is
\* the requested name, the warehouse holds an integration of that name
\* (with the requested role and prefix) and none of the old name.
C16_UpdateNewNameReplaces ==
    UpdateNewName =>
        /\ Len(stmts) >= 1 =>
               /\ stmts[1].kind = "DROP API INTEGRATION"
               /\ stmts[1].target = event.PhysicalResourceId
        /\ Len(stmts) >= 2 =>
               /\ stmts[2].kind = "CREATE OR REPLACE API INTEGRATION"
               /\ stmts[2].target = Requested.integrationName
               /\ stmts[2].role = Requested.apiAwsRoleArn
               /\ stmts[2].url = Requested.apiBaseUrl
        /\ Len(stmts) >= 3 =>
               /\ stmts[3].kind = "DESCRIBE INTEGRATION"
               /\ stmts[3].target = Requested.integrationName
        /\ \A j \in 4..Len(stmts) :
               stmts[j].kind \in {"DROP FUNCTION IF EXISTS", "CREATE EXTERNAL FUNCTION"}
        /\ Returned =>
               /\ result.PhysicalResourceId = Requested.integrationName
               /\ integrations[Requested.integrationName].exists
               /\ integrations[Requested.integrationName].role = Requested.apiAwsRoleArn
               /\ integrations[Requested.integrationName].prefix = Requested.apiBaseUrl
               /\ ~integrations[event.PhysicalResourceId].exists

C16_Witness ==
    /\ UpdateNewName
    /\ Returned
    /\ event.PhysicalResourceId = "intA"
    /\ result.PhysicalResourceId = "intB"
    /\ prev.integrations["intA"].exists
    /\ ~integrations["intA"].exists

\* C17: in an Update event every function drop precedes every function
\* create, no function create is issued before every function of the
\* region has been dropped, and the first statement after a describe that
\* succeeded is a function drop, whether or not the name changed; when the
\* event returns, every function of the region has been dropped and
\* created and is bound to the requested name and the requested base URL.
C17_UpdateRecreatesFunctions ==
    (event.RequestType = "Update" /\ ~Requested.undef) =>
        LET drops == Issued("DROP FUNCTION IF EXISTS")
            creates == Issued("CREATE EXTERNAL FUNCTION")
            describes == Issued("DESCRIBE INTEGRATION")
        IN  /\ \A j \in drops : \A k \in creates : j < k
            /\ creates # {} => { stmts[j].target : j \in drops } = RegionFunctions
            /\ \A j \in describes :
                   (j < Len(stmts) \/ (described.kind = "rows" /\ ~DescribeFailure(described)))
                       => /\ Len(stmts) > j
                          /\ stmts[j + 1].kind = "DROP FUNCTION IF EXISTS"
            /\ \A k \in creates :
                   /\ stmts[k].integration = Requested.integrationName
                   /\ stmts[k].url = Requested.apiBaseUrl
            /\ Returned =>
                   /\ { stmts[k].target : k \in creates } = RegionFunctions
                   /\ \A f \in RegionFunctions :
                          /\ functions[f].exists
                          /\ functions[f].integration = Requested.integrationName
                          /\ functions[f].url = Requested.apiBaseUrl

C17_Witness ==
    /\ UpdateSameName
    /\ Returned
    /\ region = "ap-southeast-1"
    /\ prev.functions[GEOCODE_GRAB].exists
    /\ prev.functions[GEOCODE_GRAB].url # Requested.apiBaseUrl
    /\ functions[GEOCODE_GRAB].url = Requested.apiBaseUrl

\* the event being handled is the previous event delivered again, the
\* previous delivery returned, and no statement of either delivery failed
\* for a reason of transport
Redelivered ==
    /\ rpc = "done"
    /\ prev.redelivery
    /\ ~faults

\* C18: a Delete event delivered a second time with the same
\* PhysicalResourceId, after the first delivery returned, returns the empty
\* response too; a Delete event that finds the integration absent returns
\* the empty response.
C18_DeleteIdempotent ==
    /\ (event.RequestType = "Delete" /\ Redelivered) => result = EmptyResponse
    /\ ( /\ event.RequestType = "Delete"
         /\ rpc = "done"
         /\ ~faults
         /\ ~prev.integrations[event.PhysicalResourceId].exists )
       => result = EmptyResponse

\* C19: a Create or Update event delivered a second time, after the first
\* delivery returned, returns too, with the same PhysicalResourceId, and
\* leaves the integrations and the functions of the warehouse as the first
\* delivery left them.
C19_CreateUpdateIdempotent ==
    (event.RequestType \in {"Create", "Update"} /\ Redelivered) =>
        /\ result.kind = "ok"
        /\ result.PhysicalResourceId = prev.PhysicalResourceId
        /\ integrations = prev.integrations
        /\ functions = prev.functions

\* the functions a statement list names
Targets(statements) == { statements[j].target : j \in 1..Len(statements) }

\* C20: for the region of the deployment and whatever the event asks for,
\* the function create list and the function drop list name the same
\* functions: the four Here and Esri functions, and the two Grab functions
\* exactly in ap-southeast-1.  So only functions of the region are ever
\* created, and a Delete event that returns has dropped each of them and
\* leaves none.
C20_CreateAndDropListsAgree ==
    /\ \A n \in WarehouseNames, u \in BaseUrls \cup {UNDEF} :
           /\ Targets(getInterpolatedStatements(
                   [integrationName |-> n, apiBaseUrl |-> u], region))
                  = Targets(deleteExternalFunctionsStatements(region))
           /\ Targets(deleteExternalFunctionsStatements(region))
                  = {REVERSE_HERE, REVERSE_ESRI, GEOCODE_HERE, GEOCODE_ESRI}
                       \cup (IF region = "ap-southeast-1"
                             THEN {REVERSE_GRAB, GEOCODE_GRAB} ELSE {})
    /\ \A j \in Issued("CREATE EXTERNAL FUNCTION") : stmts[j].target \in RegionFunctions
    /\ \A j \in Issued("DROP FUNCTION IF EXISTS") : stmts[j].target \in RegionFunctions
    /\ \A f \in FunctionNames : functions[f].exists => f \in RegionFunctions
    /\ (event.RequestType = "Delete" /\ Returned) =>
           /\ { stmts[j].target : j \in Issued("DROP FUNCTION IF EXISTS") } = RegionFunctions
           /\ \A f \in FunctionNames : ~functions[f].exists

C20_Witness ==
    /\ event.RequestType = "Delete"
    /\ Returned
    /\ region = "ap-southeast-1"
    /\ prev.functions[GEOCODE_GRAB].exists
    /\ prev.functions[REVERSE_GRAB].exists
    /\ ~functions[GEOCODE_GRAB].exists
    /\ Cardinality(Issued("DROP FUNCTION IF EXISTS")) = 6

\* C22: the sends of one call are issued in row order, one at a time and
\* each row once: send j carries row j, a send is outstanding exactly while
\* the loop awaits, every send before the last has settled with a response,
\* and a call answered 200 has sent every row once.
C22_SequentialSends ==
    /\ Len(sent) <= Len(rows.r)
    /\ Len(replies) <= Len(sent)
    /\ Len(sent) <= Len(replies) + 1
    /\ (Len(sent) = Len(replies) + 1) <=> (pc = "awaitBackend")
    /\ \A j \in 1..Len(sent) :
           IF operation = "reverseGeocode"
           THEN sent[j].Position = <<Elem(rows.r[j], 2), Elem(rows.r[j], 3)>>
           ELSE sent[j].Text = Elem(rows.r[j], 2)
    /\ \A j \in 1..(Len(sent) - 1) : replies[j].kind = "ok"
    /\ (Done /\ Status = 200) =>
           /\ Len(sent) = Len(rows.r)
           /\ Len(replies) = Len(rows.r)

C22_Witness ==
    /\ Done
    /\ Status = 200
    /\ Len(sent) = MaxRows
    /\ sent[1] # sent[2]

\* C23: a name whose suffix is none of here, esri, grab gets the error of
\* an unknown provider without any fetch from AppConfig, and an
\* unrecognized operation prefix is reported without any fetch.
C23_ClassificationWithoutFetch ==
    (DecodableBody /\ HeaderNamed /\ pc # "start") =>
        /\ (~HasPrefixCI(headers.v, GEOCODE) /\ ~HasPrefixCI(headers.v, REVERSE)) =>
               /\ fetches = 0
               /\ Done
               /\ response.body.error = "no operation type found, invalid function name"
        /\ ( /\ HasPrefixCI(headers.v, GEOCODE) \/ HasPrefixCI(headers.v, REVERSE)
             /\ ProviderKey(headers.v) = UNDEF
             /\ env = AllEnv ) =>
               /\ fetches = 0
               /\ Done
               /\ response.body.error = "no provider found, invalid function name"

\* a settled send that carries a match with coordinates
GeocodeMatch(res) ==
    /\ res.kind = "ok"
    /\ res.Results = "first"
    /\ res.Place
    /\ res.Point # NoPoint

\* C27: the result row of a geocode row with a match is (id, Point[0],
\* Point[1]), whatever the coordinates, 0 included; -1 stands in a result
\* row only for a send without match.
C27_CoordinatesExact ==
    operation = "geocode" =>
        \A k \in 1..Len(resultRows) :
            /\ GeocodeMatch(replies[k]) =>
                   resultRows[k] = <<Elem(rows.r[k], 1), replies[k].Point[1],
                                     replies[k].Point[2]>>
            /\ (resultRows[k][2] = -1 \/ resultRows[k][3] = -1) =>
                   ~GeocodeMatch(replies[k])

\* the three properties an event must carry
RequiredProperties == {"integrationName", "apiAwsRoleArn", "apiBaseUrl"}

\* C26: a Create or Update event without ResourceProperties, or without
\* one of the three properties, fails with "missing properties in
\* CloudFormation event" and no statement is issued; with the three
\* properties the first statement issued carries their values.
C26_MissingPropertiesRejected ==
    (event.RequestType \in {"Create", "Update"} /\ rpc # "idle") =>
        /\ (Requested.undef \/ ~(RequiredProperties \subseteq Requested.keys)) =>
               /\ rpc = "done"
               /\ result.kind = "error"
               /\ result.message = "missing properties in CloudFormation event"
               /\ stmts = <<>>
        /\ (~Requested.undef /\ RequiredProperties \subseteq Requested.keys) =>
               /\ Len(stmts) >= 1
               /\ \E j \in 1..Len(stmts) :
                      stmts[j].target = Requested.integrationName

\* the event is an Update that changes the name, and it has failed
UpdateNewNameFailed ==
    /\ UpdateNewName
    /\ rpc = "done"
    /\ result.kind = "error"

\* C28: when an Update event that changes the name of the integration
\* fails, at whatever step, the integration of the old PhysicalResourceId
\* that the event found is still in the warehouse.
C28_FailedUpdateKeepsOldIntegration ==
    (UpdateNewNameFailed /\ prev.integrations[event.PhysicalResourceId].exists) =>
        integrations[event.PhysicalResourceId] = prev.integrations[event.PhysicalResourceId]

\* C29: a Delete event issues first the drop of the integration named by
\* PhysicalResourceId and after it only function drops; a function drop is
\* issued only when the integration drop has succeeded; when the event
\* returns, neither the integration nor any external function exists.
C29_DeleteOrder ==
    event.RequestType = "Delete" =>
        /\ Len(stmts) >= 1 =>
               /\ stmts[1].kind = "DROP API INTEGRATION"
               /\ stmts[1].target = event.PhysicalResourceId
        /\ \A j \in 2..Len(stmts) : stmts[j].kind = "DROP FUNCTION IF EXISTS"
        /\ Issued("DROP FUNCTION IF EXISTS") # {} =>
               /\ prev.integrations[event.PhysicalResourceId].exists
               /\ ~integrations[event.PhysicalResourceId].exists
        /\ (rpc # "idle" /\ ~prev.integrations[event.PhysicalResourceId].exists) =>
               Issued("DROP FUNCTION IF EXISTS") = {}
        /\ Returned =>
               /\ result = EmptyResponse
               /\ ~integrations[event.PhysicalResourceId].exists
               /\ \A f \in FunctionNames : ~functions[f].exists

C29_Witness ==
    /\ event.RequestType = "Delete"
    /\ Returned
    /\ prev.integrations[event.PhysicalResourceId].exists
    /\ prev.functions[REVERSE_HERE].exists
    /\ ~functions[REVERSE_HERE].exists

\* C30: an event whose RequestType is none of Create, Update, Delete
\* fails with "Unexpected event.RequestType - see logs for details", issues
\* no statement, and leaves integrations and functions as it found them.
C30_UnexpectedRequestType ==
    (rpc # "idle" /\ event.RequestType \notin {"Create", "Update", "Delete"}) =>
        /\ rpc = "done"
        /\ result.kind = "error"
        /\ result.message = "Unexpected event.RequestType - see logs for details"
        /\ stmts = <<>>
        /\ integrations = prev.integrations
        /\ functions = prev.functions

C30_Witness ==
    /\ event.RequestType = "Replace"
    /\ rpc = "done"
    /\ result.kind = "error"
    /\ integrations["intA"].exists
    /\ functions[GEOCODE_HERE].exists

\* C24: over the executeStatement calls of a process at most one pool is
\* created, and every call uses that pool.
C24_OnePool ==
    /\ pools <= 1
    /\ \A j \in 1..Len(poolUses) : poolUses[j].pool = poolUses[1].pool

\* the rows call c produces when it runs alone on its rows and replies
AloneRows(rec) ==
    [k \in 1..Len(rec.rows.r) |->
        StringifyRow(IF rec.operation = "reverseGeocode"
                     THEN reverseGeocodeRow(rec.rows.r[k], rec.replies[k]).v
                     ELSE geocodeRow(rec.rows.r[k], rec.replies[k]).v)]

\* the ids of the rows call c was sent
IdsOf(c) == { calls[c].rows.r[k].f[1] : k \in 1..Len(calls[c].rows.r) }

\* C21: for every interleaving of two inbound calls in one process, the 200
\* response of a call holds exactly the rows the call produces alone (one per
\* row of its own request, built from its own row and its own backend reply),
\* and no id of the other call appears in its response
C21_CallsIsolated ==
    \A c \in CallIds :
        (calls[c].pc = "done" /\ calls[c].response.statusCode = 200) =>
            /\ calls[c].response.data = AloneRows(calls[c])
            /\ \A k \in 1..Len(calls[c].response.data) :
                   /\ calls[c].response.data[k][1] \in IdsOf(c)
                   /\ \A d \in CallIds \ {c} :
                          calls[c].response.data[k][1] \notin IdsOf(d)

\* call 1 has answered 200 with all its rows while call 2, which started
\* before that, is in the middle of its own rows
C21_Witness ==
    /\ calls[1].pc = "done"
    /\ calls[1].response.statusCode = 200
    /\ Len(calls[1].response.data) = MaxRows
    /\ calls[2].pc = "awaitBackend"
    /\ calls[2].i = 2
    /\ Len(resultRowsOf[Scope(2)]) = 1

====
